---- MODULE Spec2Model ----
(***************************************************************************)
(* Model of the three leaderboard extractors of amonguscsv:                *)
(*   extract_player_stats.py, extract_match_history.py and                 *)
(*   extract_teammates.py.                                                 *)
(*                                                                         *)
(* A document (html_content) is a sequence of markup tokens: tags, text    *)
(* runs and image references.  Every regular expression of the source is   *)
(* a pattern over that sequence: an element of a pattern either has to     *)
(* match the very next token (the source puts only white space or the     *)
(* rest of a tag between the two) or is preceded by a lazy gap, the        *)
(* source's non-greedy dot-star under re.DOTALL.                           *)
(***************************************************************************)
EXTENDS Integers, Sequences, FiniteSets, TLC

(***************************************************************************)
(* Python's None.  Every extracted scalar is a string, as in the source.   *)
(***************************************************************************)
None == "None"

(***************************************************************************)
(* Characters of image references (1-character strings) and str.lower().   *)
(***************************************************************************)
Upper == <<"A","B","C","D","E","F","G","H","I","J","K","L","M",
           "N","O","P","Q","R","S","T","U","V","W","X","Y","Z">>

Lower == <<"a","b","c","d","e","f","g","h","i","j","k","l","m",
           "n","o","p","q","r","s","t","u","v","w","x","y","z">>

lowerChar(c) ==
  IF \E j \in 1..26 : Upper[j] = c
  THEN Lower[CHOOSE j \in 1..26 : Upper[j] = c]
  ELSE c

lower(s) == [j \in 1..Len(s) |-> lowerChar(s[j])]

\* Python's `needle in s` on strings: needle occurs as a contiguous substring.
Contains(s, needle) ==
  \E off \in 0..(Len(s) - Len(needle)) :
    \A j \in 1..Len(needle) : s[off + j] = needle[j]

(***************************************************************************)
(* Markup tokens.                                                          *)
(***************************************************************************)
\* value of a data-href attribute: "./?tournament=<t>&id=<id>"
\*   tour: "none" (no tournament= parameter), "season" (value holds the
\*         token "Season <n>"), "other" (value without such a token)
\*   id:   digits of the id= parameter, "" when there is none
\*   idlast: the id= parameter ends the attribute value
HrefVal(tour, n, id, idlast) == [tour |-> tour, n |-> n, id |-> id, idlast |-> idlast]

NoHref == HrefVal("none", "", "", FALSE)

\* <title>name - Ranked Among Us Leaderboards</title>; ok = FALSE: a title
\* without the " - Ranked Among Us Leaderboards" suffix
TitleTok(name, ok) == [k |-> "title", name |-> name, ok |-> ok]

\* an element other than <tr> that carries a data-href attribute
NavTok(hr) == [k |-> "nav", href |-> hr]

\* <tr> (attr = "plain"), <tr class=...> (attr = "class"),
\* <tr class="clickable-row" data-href=...> (attr = "href")
TrTok(attr, hr) == [k |-> "tr", attr |-> attr, href |-> hr]

\* <th style="color: c"> ; color "" when the tag has no color style
ThTok(color) == [k |-> "th", color |-> color]

\* a tag without attributes the patterns look at: "/th", "td", "/td",
\* "h1", "/h1", "span", "/span", "/table"
Tag(name) == [k |-> name]

\* <table class="cls">
TableTok(cls) == [k |-> "table", class |-> cls]

\* <img src=... > ; src: characters of the file part of the reference,
\* av: the id when the reference is cdn.discordapp.com/avatars/<id>/..., else "",
\* top: the tag has class="avatar avatarTop", close: the tag ends in "/>"
ImgTok(src, av, top, close) == [k |-> "img", src |-> src, av |-> av, top |-> top, close |-> close]

\* a text run: either a word (word # "") or a number  pre ip[.fp] suf
\*   pre: "", "+" or "-"      ip: integer digits      fp: fraction digits
\*   suf: ""  |  "%"  |  "of" : " (<ann>% of total)"  |  "br" : " [<ann>%]"
\*        |  "junk" : other trailing text
TextTok(word, pre, ip, fp, suf, ann) ==
  [k |-> "text", word |-> word, pre |-> pre, ip |-> ip, fp |-> fp, suf |-> suf, ann |-> ann]

Word(w) == TextTok(w, "", "", "", "", "")

IntTok(d) == TextTok("", "", d, "", "", "")

PctTok(d) == TextTok("", "", d, "", "%", "")

\* the characters [\d.]+ takes from a number
DecStr(t) == IF t.fp = "" THEN t.ip ELSE t.ip \o "." \o t.fp

\* the characters of a text run (what [^<]+ captures, stripped)
TextStr(t) ==
  IF t.word # "" THEN t.word
  ELSE t.pre \o DecStr(t) \o
       (CASE t.suf = "%"    -> "%"
          [] t.suf = "of"   -> " (" \o t.ann \o "% of total)"
          [] t.suf = "br"   -> " [" \o t.ann \o "%]"
          [] t.suf = "junk" -> " ~"
          [] OTHER          -> "")

IsNum(t) == t.k = "text" /\ t.word = "" /\ t.ip # ""

HasHref(t) == t.k = "nav" \/ (t.k = "tr" /\ t.attr = "href")

steam_AboutCrew == <<"s","t","e","a","m","_","A","b","o","u","t","C","r","e","w">>

steam_AboutImpostor == <<"s","t","e","a","m","_","A","b","o","u","t","I","m","p","o","s","t","o","r">>

(***************************************************************************)
(* What one pattern element accepts.  The names are the source's regex     *)
(* fragments.                                                              *)
(***************************************************************************)
Sat(p, t) ==
  CASE p = "title"      -> t.k = "title" /\ t.ok
    \* data-href="[^"]*tournament=([^"&]+)
    [] p = "tournament" -> HasHref(t) /\ t.href.tour # "none"
    \* data-href="[^"]*id=(\d+)
    [] p = "href_id"    -> HasHref(t) /\ t.href.id # ""
    \* cdn\.discordapp\.com/avatars/(\d+)/
    [] p = "avatar"     -> t.k = "img" /\ t.av # ""
    \* class="avatar avatarTop"[^>]*>
    [] p = "avatarTop"  -> t.k = "img" /\ t.top
    \* [^<]+?
    [] p = "text"       -> t.k = "text"
    \* <tr>
    [] p = "tr_plain"   -> t.k = "tr" /\ t.attr = "plain"
    \* <tr[^>]*data-href="[^"]*id=(\d+)"[^>]*>
    [] p = "tr_href_id" -> t.k = "tr" /\ t.attr = "href" /\ t.href.id # "" /\ t.href.idlast
    \* <th[^>]*>
    [] p = "th"         -> t.k = "th"
    \* <th[^>]*color:\s*royalblue[^>]*>   (and red, white)
    [] p = "th_royalblue" -> t.k = "th" /\ t.color = "royalblue"
    [] p = "th_red"     -> t.k = "th" /\ t.color = "red"
    [] p = "th_white"   -> t.k = "th" /\ t.color = "white"
    \* steam_AboutCrew, steam_AboutImpostor
    [] p = "icon_crew"  -> t.k = "img" /\ Contains(t.src, steam_AboutCrew)
    [] p = "icon_imp"   -> t.k = "img" /\ Contains(t.src, steam_AboutImpostor)
    \* <img[^>]*src="([^"]+)"[^>]*>
    [] p = "img"        -> t.k = "img"
    \* <img[^>]*/>
    [] p = "img_closed" -> t.k = "img" /\ t.close
    \* \s*(\d+)\s*
    [] p = "int"        -> IsNum(t) /\ t.pre = "" /\ t.fp = "" /\ t.suf = ""
    \* \s*(\d+)%\s*
    [] p = "int_pct"    -> IsNum(t) /\ t.pre = "" /\ t.fp = "" /\ t.suf = "%"
    \* \s*(\d+).*?        (the rest of the run is taken by the lazy gap)
    [] p = "int_start"  -> IsNum(t) /\ t.pre = ""
    \* \s*([\d.]+)%\s*
    [] p = "dec_pct"    -> IsNum(t) /\ t.pre = "" /\ t.suf = "%"
    \* \s*[+]?([-]?[\d.]+)
    [] p = "mmr"        -> IsNum(t)
    \* \s*(\d+)\s*\[(\d+)%\]\s*
    [] p = "count_pct"  -> IsNum(t) /\ t.pre = "" /\ t.fp = "" /\ t.suf = "br"
    \* (Won|Loss)
    [] p = "won_loss"   -> t.k = "text" /\ t.word \in {"Won", "Loss"}
    \* Recent 10 Results / Top 10 Common Teammates
    [] p = "recent10"   -> t.k = "text" /\ t.word = "Recent 10 Results"
    [] p = "top10"      -> t.k = "text" /\ t.word = "Top 10 Common Teammates"
    \* <table[^>]*class="archiveResults[^"]*"[^>]*>
    [] p = "table_archive" -> t.k = "table" /\ t.class = "archiveResults"
    \* <table.*?>
    [] p = "table"      -> t.k = "table"
    \* a closing or attribute-free tag: "/th", "td", "/td", "h1", ...
    [] OTHER            -> t.k = p

\* pattern elements: N(p) has to match the next token, G(p) follows a lazy gap
N(p) == [gap |-> FALSE, p |-> p]

G(p) == [gap |-> TRUE, p |-> p]

(***************************************************************************)
(* The matcher of Python's re on these patterns.  A pattern is cut at its  *)
(* lazy gaps into segments; a segment's elements match consecutive tokens. *)
(* A match is the sequence of the positions the elements matched at, Fail  *)
(* when there is none.  re tries the start positions from left to right,   *)
(* and at a lazy gap the shortest stretch first, backtracking to a longer  *)
(* one when the rest of the pattern does not match: so a segment is placed *)
(* at the nearest position from which the rest of the pattern matches.     *)
(***************************************************************************)
Fail == <<0>>

\* F(v), with v evaluated once however often F uses it
Let(v, F(_)) == CHOOSE r \in {F(x) : x \in {v}} : TRUE

Min(S) == CHOOSE q \in S : \A e \in S : q <= e

\* last element of the segment that starts at element a
SegEnd(pat, a) == Min({g - 1 : g \in {g \in (a + 1)..Len(pat) : pat[g].gap} \cup {Len(pat) + 1}})

\* the elements a..b match the tokens at q, q+1, ...
SegAt(pat, toks, a, b, q) ==
  /\ q + (b - a) <= Len(toks)
  /\ \A j \in a..b : Sat(pat[j].p, toks[q + (j - a)])

\* for the segment starting at element a and every later one: the positions
\* at which the segment matches and the rest of the pattern matches after it
RECURSIVE Feasible(_, _, _)
Feasible(pat, toks, a) ==
  Let(SegEnd(pat, a),
      LAMBDA b :
        Let(IF b = Len(pat) THEN <<>> ELSE Feasible(pat, toks, b + 1),
            LAMBDA rest :
              LET here == {q \in 1..Len(toks) :
                             /\ SegAt(pat, toks, a, b, q)
                             /\ b = Len(pat) \/ \E q2 \in rest[b + 1] : q2 >= q + (b - a) + 1}
              IN  (a :> here) @@ rest))

\* the positions of the match whose segment a is placed at or after lo
RECURSIVE Place(_, _, _, _)
Place(pat, feas, a, lo) ==
  Let(SegEnd(pat, a),
      LAMBDA b :
        Let(Min({e \in feas[a] : e >= lo}),
            LAMBDA q :
              [j \in 1..(b - a + 1) |-> q + j - 1]
              \o (IF b = Len(pat) THEN <<>> ELSE Place(pat, feas, b + 1, q + (b - a) + 1))))

SearchIn(pat, feas, from) ==
  IF \E e \in feas[1] : e >= from THEN Place(pat, feas, 1, from) ELSE Fail

\* re.search from position `from`
search(pattern, string, from) ==
  Let(<<pattern, string>>,
      LAMBDA a : Let(Feasible(a[1], a[2], 1), LAMBDA feas : SearchIn(a[1], feas, from)))

\* re.finditer: the successive non-overlapping matches, left to right
RECURSIVE FindAll(_, _, _)
FindAll(pat, feas, from) ==
  Let(SearchIn(pat, feas, from),
      LAMBDA m : IF m = Fail THEN <<>>
                 ELSE <<m>> \o FindAll(pat, feas, m[Len(m)] + 1))

finditer(pattern, string, from) ==
  Let(<<pattern, string>>,
      LAMBDA a : Let(Feasible(a[1], a[2], 1), LAMBDA feas : FindAll(a[1], feas, from)))

(***************************************************************************)
(* Field extractors (identical in the three files unless noted).           *)
(***************************************************************************)
extract_server_name(html_content) ==
  LET match == search(<<N("title")>>, html_content, 1)
  IN  IF match # Fail THEN html_content[match[1]].name ELSE None

\* variant: the final `return "0"` is a `return None`
extract_season_NoDefault(html_content) ==
  LET match == search(<<N("tournament")>>, html_content, 1)
  IN  IF match # Fail
      THEN LET season_str == html_content[match[1]].href
           IN  IF season_str.tour = "season" THEN season_str.n ELSE "0"
      ELSE None

extract_season(html_content) ==
  LET match == search(<<N("tournament")>>, html_content, 1)
  IN  IF match # Fail
      THEN LET season_str == html_content[match[1]].href
           IN  IF season_str.tour = "season" THEN season_str.n ELSE "0"
      ELSE "0"

\* extract_player_stats.py: avatar URL first, data-href as backup
extract_discord_id_stats(html_content) ==
  LET match == search(<<N("avatar")>>, html_content, 1)
      backup == search(<<N("href_id")>>, html_content, 1)
  IN  IF match # Fail THEN html_content[match[1]].av
      ELSE IF backup # Fail THEN html_content[backup[1]].href.id
      ELSE None

\* variant: the data-href backup of the stats extractor
extract_discord_id_WithBackup(html_content) ==
  LET match == search(<<N("avatar")>>, html_content, 1)
      backup == search(<<N("href_id")>>, html_content, 1)
  IN  IF match # Fail THEN html_content[match[1]].av
      ELSE IF backup # Fail THEN html_content[backup[1]].href.id
      ELSE None

\* extract_match_history.py: avatar URL only
extract_discord_id_match(html_content) ==
  LET match == search(<<N("avatar")>>, html_content, 1)
  IN  IF match # Fail THEN html_content[match[1]].av ELSE None

\* extract_teammates.py: avatar URL only
extract_discord_id_team(html_content) ==
  LET match == search(<<N("avatar")>>, html_content, 1)
  IN  IF match # Fail THEN html_content[match[1]].av ELSE None

extract_username(html_content) ==
  LET match == search(<<N("avatarTop"), G("h1"), N("text"), N("/h1")>>, html_content, 1)
  IN  IF match # Fail THEN TextStr(html_content[match[3]]) ELSE None

(***************************************************************************)
(* Lookup tables of extract_match_history.py.                              *)
(***************************************************************************)
extract_map_from_image(img_src) ==
  IF Contains(lower(img_src), <<"p","o","l","u","s">>) THEN "Polus"
  ELSE IF Contains(lower(img_src), <<"m","i","r","a">>) THEN "MIRA HQ"
  ELSE IF Contains(lower(img_src), <<"s","k","e","l","d">>) THEN "The Skeld"
  ELSE IF Contains(lower(img_src), <<"a","i","r","s","h","i","p">>) THEN "Airship"
  ELSE "Unknown"

extract_role_from_image(img_src) ==
  IF Contains(img_src, <<"C","r","e","w">>) \/ Contains(img_src, <<"c","r","e","w">>)
  THEN "Crewmate"
  ELSE IF Contains(img_src, <<"I","m","p","o","s","t","o","r">>)
          \/ Contains(img_src, <<"i","m","p","o","s","t","o","r">>)
  THEN "Impostor"
  ELSE "Unknown"

(***************************************************************************)
(* extract_player_stats.py: extract_role_stats.                            *)
(***************************************************************************)
\* </th>\s*<td..>(\d+)</td> <td..>(\d+).*?</td> <td..>(\d+)%</td>
\*        <td..>(\d+).*?</td> <td..>(\d+).*?</td> <td..>(\d+)%</td>
StatCells ==
  << G("/th"),
     N("td"), N("int"),       N("/td"),
     N("td"), N("int_start"), G("/td"),
     N("td"), N("int_pct"),   N("/td"),
     N("td"), N("int_start"), G("/td"),
     N("td"), N("int_start"), G("/td"),
     N("td"), N("int_pct"),   N("/td") >>

CrewmatePattern == <<N("tr_plain"), N("th_royalblue"), G("icon_crew")>> \o StatCells

ImpostorPattern == <<N("th_red"), G("icon_imp")>> \o StatCells

CombinedPattern == <<N("th_white")>> \o StatCells

RolePattern(role) ==
  CASE role = "Crewmate" -> CrewmatePattern
    [] role = "Impostor" -> ImpostorPattern
    [] role = "Combined" -> CombinedPattern
    [] OTHER             -> <<>>

AbsentStats ==
  [rank |-> None, mmr |-> None, games_played_pct |-> None,
   wins |-> None, losses |-> None, win_pct |-> None]

\* match.group(k): the digits of the k-th cell among the matched positions
StatGroup(html_content, pattern, match, k) ==
  html_content[match[Len(pattern) - 19 + 3 * k]].ip

extract_role_stats(html_content, role) ==
  IF role \notin {"Crewmate", "Impostor", "Combined"} THEN AbsentStats
  ELSE
    LET pattern == RolePattern(role)
    IN  Let(search(pattern, html_content, 1),
            LAMBDA match :
              IF match # Fail
              THEN [rank             |-> StatGroup(html_content, pattern, match, 1),
                    mmr              |-> StatGroup(html_content, pattern, match, 2),
                    games_played_pct |-> StatGroup(html_content, pattern, match, 3),
                    wins             |-> StatGroup(html_content, pattern, match, 4),
                    losses           |-> StatGroup(html_content, pattern, match, 5),
                    win_pct          |-> StatGroup(html_content, pattern, match, 6)]
              ELSE AbsentStats)

(***************************************************************************)
(* extract_match_history.py: extract_match_history.                        *)
(***************************************************************************)
\* the tokens of toks strictly between positions a and b
Between(toks, a, b) == SubSeq(toks, a + 1, b - 1)

MatchRowPattern ==
  << N("tr_plain"),
     N("th"), N("int"), N("/th"),
     N("td"), N("img"), N("/td"),
     N("td"), N("img"), N("/td"),
     N("td"), N("dec_pct"), N("/td"),
     N("td"), N("span"), N("won_loss"), N("/span"), N("/td"),
     N("td"), N("mmr"), G("/td") >>

\* re.search(r'([\d.]+)%\s*of\s*total', mmr_extra): mmr_extra is what follows
\* the number, up to the cell's end
PctOfTotal(mmr_extra) ==
  LET hits == {j \in 1..Len(mmr_extra) :
                 mmr_extra[j].k = "text" /\ mmr_extra[j].suf = "of"}
  IN  IF hits = {} THEN None
      ELSE mmr_extra[CHOOSE j \in hits : \A h \in hits : j <= h].ann

\* variant: the sign class takes the '+' as well, ([+-]?[\d.]+)
MatchRecord_KeepPlus(table_content, match) ==
  LET mmr == table_content[match[20]]
  IN  [match_id            |-> table_content[match[3]].ip,
       map                 |-> extract_map_from_image(table_content[match[6]].src),
       role                |-> extract_role_from_image(table_content[match[9]].src),
       win_probability_pct |-> DecStr(table_content[match[12]]),
       result              |-> table_content[match[16]].word,
       mmr_change          |-> mmr.pre \o DecStr(mmr),
       mmr_pct_of_total    |-> PctOfTotal(SubSeq(table_content, match[20], match[21] - 1))]

MatchRecord(table_content, match) ==
  LET mmr == table_content[match[20]]
  IN  [match_id            |-> table_content[match[3]].ip,
       map                 |-> extract_map_from_image(table_content[match[6]].src),
       role                |-> extract_role_from_image(table_content[match[9]].src),
       win_probability_pct |-> DecStr(table_content[match[12]]),
       result              |-> table_content[match[16]].word,
       mmr_change          |-> (IF mmr.pre = "-" THEN "-" ELSE "") \o DecStr(mmr),
       mmr_pct_of_total    |-> PctOfTotal(SubSeq(table_content, match[20], match[21] - 1))]

\* variant: re.search in place of re.finditer, only the first row is taken
extract_match_history_FirstOnly(html_content) ==
  Let(search(<<N("recent10"), G("table_archive"), G("/table")>>, html_content, 1),
      LAMBDA table_match :
        IF table_match = Fail THEN <<>>
        ELSE Let(Between(html_content, table_match[2], table_match[3]),
                 LAMBDA table_content :
                   Let(search(MatchRowPattern, table_content, 1),
                       LAMBDA row_match :
                         IF row_match = Fail THEN <<>>
                         ELSE <<MatchRecord(table_content, row_match)>>)))

extract_match_history(html_content) ==
  Let(search(<<N("recent10"), G("table_archive"), G("/table")>>, html_content, 1),
      LAMBDA table_match :
        IF table_match = Fail THEN <<>>
        ELSE Let(Between(html_content, table_match[2], table_match[3]),
                 LAMBDA table_content :
                   Let(finditer(MatchRowPattern, table_content, 1),
                       LAMBDA row_matches :
                         [j \in 1..Len(row_matches) |->
                            MatchRecord(table_content, row_matches[j])])))

(***************************************************************************)
(* extract_teammates.py: extract_teammates.                                *)
(***************************************************************************)
TeammateRowPattern ==
  << N("tr_href_id"),
     G("th"), N("int"), N("/th"),
     G("img_closed"), N("text"), N("/td"),
     G("td"), N("int"), N("/td"),
     G("td"), N("count_pct"), N("/td") >>

TeammateRecord(table_content, match) ==
  [teammate_discord_id    |-> table_content[match[1]].href.id,
   teammate_rank          |-> table_content[match[3]].ip,
   teammate_username      |-> TextStr(table_content[match[6]]),
   teammate_mmr           |-> table_content[match[9]].ip,
   matches_together_count |-> table_content[match[12]].ip,
   matches_together_pct   |-> table_content[match[12]].ann]

extract_teammates(html_content) ==
  Let(search(<<N("top10"), G("table"), G("/table")>>, html_content, 1),
      LAMBDA teammates_section :
        IF teammates_section = Fail THEN <<>>
        ELSE Let(Between(html_content, teammates_section[2], teammates_section[3]),
                 LAMBDA table_content :
                   Let(finditer(TeammateRowPattern, table_content, 1),
                       LAMBDA matches :
                         [j \in 1..Len(matches) |->
                            TeammateRecord(table_content, matches[j])])))

(***************************************************************************)
(* Documents.  A document is described by what its author put into it (the *)
(* description is what the properties compare the extraction against) and  *)
(* html is the token sequence the description renders to, the content the  *)
(* extractors read.                                                        *)
(***************************************************************************)
RECURSIVE Concat(_)
Concat(ss) == IF ss = <<>> THEN <<>> ELSE Head(ss) \o Concat(Tail(ss))

\* most rows a generated results or teammates table holds
MaxRows == 11

\* longest table that mixes conformant and non-conformant rows
MaxMixed == 2

Categories == <<"Combined", "Crewmate", "Impostor">>

CatNo(cat) == CHOOSE c \in 1..3 : Categories[c] = cat

\* the k-th cell value of a category's row; different for every category
StatVal(cat, k) == ToString(CatNo(cat)) \o ToString(k)

StatTh(cat) ==
  CASE cat = "Combined" -> <<ThTok("white"), Word("Combined"), Tag("/th")>>
    [] cat = "Crewmate" -> <<ThTok("royalblue"),
                             ImgTok(steam_AboutCrew \o <<"_","v","2">>, "", FALSE, TRUE),
                             Tag("/th")>>
    [] cat = "Impostor" -> <<ThTok("red"),
                             ImgTok(steam_AboutImpostor \o <<"_","v","2">>, "", FALSE, TRUE),
                             Tag("/th")>>

Cell(t) == <<Tag("td"), t, Tag("/td")>>

\* a stats row: well-formed (six cells rank, mmr, played%, wins, losses, win%)
\* or malformed (the marker, but cells that hold "-")
StatRowHtml(r) ==
  <<TrTok("plain", NoHref)>> \o StatTh(r.cat) \o
  (IF r.ok
   THEN Cell(IntTok(StatVal(r.cat, 1))) \o
        Cell(TextTok("", "", StatVal(r.cat, 2), "", "junk", "")) \o
        Cell(PctTok(StatVal(r.cat, 3))) \o
        Cell(IntTok(StatVal(r.cat, 4))) \o
        Cell(IntTok(StatVal(r.cat, 5))) \o
        Cell(PctTok(StatVal(r.cat, 6)))
   ELSE Concat([k \in 1..6 |-> Cell(Word("-"))]))

StatsHtml(stats) ==
  <<TableTok("matchResults"), TrTok("plain", NoHref), ThTok(""), Word("Role"), Tag("/th")>>
  \o Concat([j \in 1..Len(stats) |-> StatRowHtml(stats[j])])
  \o <<Tag("/table")>>

MapSrcs ==
  << <<"p","o","l","u","s">>, <<"a","i","r","s","h","i","p">>, <<"s","k","e","l","d">>,
     <<"m","i","r","a">>, <<"f","u","n","g","l","e">> >>

RoleSrcs ==
  << steam_AboutCrew \o <<"_","v","2">>, steam_AboutImpostor \o <<"_","v","2">>,
     <<"g","h","o","s","t">> >>

\* the cells of the j-th results row; they vary with j
MatchMap(j) == MapSrcs[(j % 5) + 1]

MatchRole(j) == RoleSrcs[(j % 3) + 1]

MatchResult(j) == IF j % 2 = 1 THEN "Won" ELSE "Loss"

MatchMmr(j) ==
  CASE j % 4 = 1 -> TextTok("", "+", "12", "", "of", "5")
    [] j % 4 = 2 -> TextTok("", "-", "7", "5", "", "")
    [] j % 4 = 3 -> TextTok("", "", "3", "", "", "")
    [] OTHER     -> TextTok("", "-", "20", "", "of", "8.5")

\* forms of a results row: "ok" conforms to the row shape; "draw" has a result
\* label other than Won/Loss; "short" lacks the MMR cell; "trclass" opens with
\* <tr class=...> instead of <tr>
MatchForms == {"ok", "draw", "short", "trclass"}

MatchRowHtml(j, form) ==
  <<TrTok(IF form = "trclass" THEN "class" ELSE "plain", NoHref)>> \o
  <<ThTok(""), IntTok(ToString(j)), Tag("/th")>> \o
  Cell(ImgTok(MatchMap(j), "", FALSE, TRUE)) \o
  Cell(ImgTok(MatchRole(j), "", FALSE, TRUE)) \o
  Cell(TextTok("", "", "63", "5", "%", "")) \o
  <<Tag("td"), Tag("span"), Word(IF form = "draw" THEN "Draw" ELSE MatchResult(j)),
    Tag("/span"), Tag("/td")>> \o
  (IF form = "short" THEN <<>> ELSE Cell(MatchMmr(j)))

\* the results section: the "Recent 10 Results" heading (marker), the table
\* (cls: its class, "none" when the document has no such table) and its rows
MatchHtml(msec) ==
  (IF msec.marker THEN <<Word("Recent 10 Results")>> ELSE <<>>) \o
  (IF msec.cls = "none" THEN <<>>
   ELSE <<TableTok(msec.cls)>>
        \o Concat([j \in 1..Len(msec.rows) |-> MatchRowHtml(j, msec.rows[j])])
        \o <<Tag("/table")>>)

TeammateId(j) == "90" \o ToString(j)

TeammateName(j) == "mate" \o ToString(j)

\* forms of a teammates row: "ok"; "nommr" lacks the MMR cell; "nocount" has a
\* bare count without "[pct%]"; "nohref" has no data-href on its <tr>
TeamForms == {"ok", "nommr", "nocount", "nohref"}

TeamRowHtml(j, form, cdn) ==
  <<TrTok(IF form = "nohref" THEN "class" ELSE "href",
          IF form = "nohref" THEN NoHref ELSE HrefVal("season", "1", TeammateId(j), TRUE))>> \o
  <<ThTok(""), IntTok(ToString(j)), Tag("/th")>> \o
  <<Tag("td"), ImgTok(<<>>, IF cdn THEN TeammateId(j) ELSE "", FALSE, TRUE),
    Word(TeammateName(j)), Tag("/td")>> \o
  (IF form = "nommr" THEN <<>> ELSE Cell(IntTok("15" \o ToString(j)))) \o
  Cell(TextTok("", "", "8" \o ToString(j), "", IF form = "nocount" THEN "" ELSE "br",
               IF form = "nocount" THEN "" ELSE "4" \o ToString(j)))

\* the teammates section; cdn: the teammates' images are Discord avatar
\* references
TeamHtml(tsec) ==
  (IF tsec.marker THEN <<Word("Top 10 Common Teammates")>> ELSE <<>>) \o
  (IF tsec.cls = "none" THEN <<>>
   ELSE <<TableTok(tsec.cls)>>
        \o Concat([j \in 1..Len(tsec.rows) |-> TeamRowHtml(j, tsec.rows[j], tsec.cdn)])
        \o <<Tag("/table")>>)

\* the head: title, navigation references, the top avatar image (av: the id in
\* its Discord reference, "" when it is not one) and the username heading
HeadHtml(head) ==
  (IF head.title THEN <<TitleTok("Skeld Server", TRUE)>> ELSE <<TitleTok("", FALSE)>>) \o
  [j \in 1..Len(head.navs) |-> NavTok(head.navs[j])] \o
  <<ImgTok(<<>>, head.av, TRUE, FALSE)>> \o
  (IF head.h1 THEN <<Tag("h1"), Word("alice"), Tag("/h1")>> ELSE <<>>)

(***************************************************************************)
(* The per-document extractors.  A call returns [raised, val]: raised      *)
(* tells whether an exception left the function (every body is inside      *)
(* try/except Exception, so none does) and val is the value returned.      *)
(* An Optional[Dict] is a sequence of at most one row: <<>> is None.       *)
(***************************************************************************)
Return(val) == [raised |-> FALSE, val |-> val]

\* `x or 'Unknown'`
OrUnknown(x) == IF x = None \/ x = "" THEN "Unknown" ELSE x

\* `not discord_id`
Not(x) == x = None \/ x = ""

\* variant: the exception is not caught and leaves the extractor
ExceptPropagate(val) == [raised |-> TRUE, val |-> val]

\* the handler `except Exception as e: ... return None` / `return []`
ExceptReturn(val) == Return(val)

StatsData(content, id, combined_stats, crew_stats, imp_stats) ==
      [server_name |-> OrUnknown(extract_server_name(content)),
       season      |-> extract_season(content),
       discord_id  |-> id,
       username    |-> OrUnknown(extract_username(content)),
       combined_rank |-> combined_stats.rank,
       combined_mmr |-> combined_stats.mmr,
       combined_games_played_pct |-> combined_stats.games_played_pct,
       combined_wins |-> combined_stats.wins,
       combined_losses |-> combined_stats.losses,
       combined_win_pct |-> combined_stats.win_pct,
       crewmate_rank |-> crew_stats.rank,
       crewmate_mmr |-> crew_stats.mmr,
       crewmate_games_played_pct |-> crew_stats.games_played_pct,
       crewmate_wins |-> crew_stats.wins,
       crewmate_losses |-> crew_stats.losses,
       crewmate_win_pct |-> crew_stats.win_pct,
       impostor_rank |-> imp_stats.rank,
       impostor_mmr |-> imp_stats.mmr,
       impostor_games_played_pct |-> imp_stats.games_played_pct,
       impostor_wins |-> imp_stats.wins,
       impostor_losses |-> imp_stats.losses,
       impostor_win_pct |-> imp_stats.win_pct]

extract_player_data(html_file) ==
  IF ~html_file.readable THEN ExceptReturn(<<>>)
  ELSE LET html_content == html_file.html
       IN  Let(extract_discord_id_stats(html_content),
               LAMBDA discord_id :
                 IF Not(discord_id) THEN Return(<<>>)
                 ELSE Let(<<extract_role_stats(html_content, "Combined"),
                            extract_role_stats(html_content, "Crewmate"),
                            extract_role_stats(html_content, "Impostor")>>,
                          LAMBDA stats :
                            Return(<<StatsData(html_content, discord_id,
                                               stats[1], stats[2], stats[3])>>)))

MatchRow(content, id, match) ==
  [server_name       |-> OrUnknown(extract_server_name(content)),
   season            |-> extract_season(content),
   player_discord_id |-> id,
   player_username   |-> OrUnknown(extract_username(content)),
   match_id            |-> match.match_id,
   map                 |-> match.map,
   role                |-> match.role,
   win_probability_pct |-> match.win_probability_pct,
   result              |-> match.result,
   mmr_change          |-> match.mmr_change,
   mmr_pct_of_total    |-> match.mmr_pct_of_total]

\* variant: the `if not discord_id` guard is missing
extract_all_match_data_NoGuard(html_file) ==
  IF ~html_file.readable THEN ExceptReturn(<<>>)
  ELSE LET html_content == html_file.html
       IN  Let(extract_discord_id_match(html_content),
               LAMBDA discord_id :
                 Let(extract_match_history(html_content),
                     LAMBDA matches :
                       Return([j \in 1..Len(matches) |->
                                 MatchRow(html_content, discord_id, matches[j])])))

extract_all_match_data(html_file) ==
  IF ~html_file.readable THEN ExceptReturn(<<>>)
  ELSE LET html_content == html_file.html
       IN  Let(extract_discord_id_match(html_content),
               LAMBDA discord_id :
                 IF Not(discord_id) THEN Return(<<>>)
                 ELSE Let(extract_match_history(html_content),
                          LAMBDA matches :
                            Return([j \in 1..Len(matches) |->
                                      MatchRow(html_content, discord_id, matches[j])])))

TeammateRow(content, id, teammate) ==
  [server_name       |-> OrUnknown(extract_server_name(content)),
   season            |-> extract_season(content),
   player_discord_id |-> id,
   player_username   |-> OrUnknown(extract_username(content)),
   teammate_discord_id    |-> teammate.teammate_discord_id,
   teammate_rank          |-> teammate.teammate_rank,
   teammate_username      |-> teammate.teammate_username,
   teammate_mmr           |-> teammate.teammate_mmr,
   matches_together_count |-> teammate.matches_together_count,
   matches_together_pct   |-> teammate.matches_together_pct]

extract_all_teammate_data(html_file) ==
  IF ~html_file.readable THEN ExceptReturn(<<>>)
  ELSE LET html_content == html_file.html
       IN  Let(extract_discord_id_team(html_content),
               LAMBDA discord_id :
                 IF Not(discord_id) THEN Return(<<>>)
                 ELSE Let(extract_teammates(html_content),
                          LAMBDA teammates :
                            Return([j \in 1..Len(teammates) |->
                                      TeammateRow(html_content, discord_id, teammates[j])])))

(***************************************************************************)
(* The documents the extractors are run on.                                *)
(***************************************************************************)
SeqsUpTo(S, n) == UNION {[1..m -> S] : m \in 0..n}

Season3 == HrefVal("season", "3", "", FALSE)

OtherTour == HrefVal("other", "", "", FALSE)

IdOnly == HrefVal("none", "", "777", TRUE)

Season2Id == HrefVal("season", "2", "555", TRUE)

IdSeason4 == HrefVal("season", "4", "666", FALSE)

NavChoices ==
  { <<>>, <<Season3>>, <<OtherTour>>, <<IdOnly>>, <<OtherTour, Season2Id>>,
    <<IdOnly, Season3>>, <<IdSeason4>> }

Heads == [title : BOOLEAN, navs : NavChoices, av : {"", "111"}, h1 : BOOLEAN]

DefaultHead == [title |-> TRUE, navs |-> <<Season3>>, av |-> "111", h1 |-> TRUE]

\* a head without any identity: no Discord avatar, no id= reference
AnonHead == [title |-> TRUE, navs |-> <<Season3>>, av |-> "", h1 |-> TRUE]

StatRows == [cat : {"Combined", "Crewmate", "Impostor"}, ok : BOOLEAN]

\* a stats table holds each category's row at most once, in any order
StatSections ==
  {st \in SeqsUpTo(StatRows, 3) : \A a, b \in 1..Len(st) : a # b => st[a].cat # st[b].cat}

FullStats ==
  << [cat |-> "Crewmate", ok |-> TRUE], [cat |-> "Impostor", ok |-> TRUE],
     [cat |-> "Combined", ok |-> TRUE] >>

MatchTables ==
  {[j \in 1..n |-> "ok"] : n \in 0..MaxRows} \cup SeqsUpTo(MatchForms, MaxMixed)

TeamTables ==
  {[j \in 1..n |-> "ok"] : n \in 0..MaxRows} \cup SeqsUpTo(TeamForms, MaxMixed)

MatchSections ==
  [marker : {TRUE}, cls : {"archiveResults"}, rows : MatchTables]
  \cup [marker : BOOLEAN, cls : {"archiveResults", "other", "none"}, rows : {<<"ok", "ok">>}]

TeamSections ==
  [marker : {TRUE}, cls : {"teammates"}, rows : TeamTables, cdn : BOOLEAN]
  \cup [marker : BOOLEAN, cls : {"teammates", "none"}, rows : {<<"ok", "ok">>}, cdn : {FALSE}]

DefaultMatches == [marker |-> TRUE, cls |-> "archiveResults", rows |-> <<"ok", "ok">>]

DefaultTeam == [marker |-> TRUE, cls |-> "teammates", rows |-> <<"ok", "ok">>, cdn |-> FALSE]

NoMatches == [marker |-> FALSE, cls |-> "none", rows |-> <<>>]

NoTeam == [marker |-> FALSE, cls |-> "none", rows |-> <<>>, cdn |-> FALSE]

Doc(readable, head, stats, msec, tsec) ==
  [readable |-> readable, head |-> head, stats |-> stats, msec |-> msec, tsec |-> tsec,
   html |-> HeadHtml(head) \o StatsHtml(stats) \o MatchHtml(msec) \o TeamHtml(tsec)]

AllDocs ==
  {Doc(r, h, FullStats, DefaultMatches, NoTeam) : r \in BOOLEAN, h \in Heads}
  \cup {Doc(TRUE, h, st, NoMatches, NoTeam) : h \in {DefaultHead, AnonHead}, st \in StatSections}
  \cup {Doc(TRUE, h, FullStats, ms, NoTeam) : h \in {DefaultHead, AnonHead}, ms \in MatchSections}
  \cup {Doc(TRUE, h, FullStats, DefaultMatches, ts) : h \in {DefaultHead, AnonHead}, ts \in TeamSections}

(***************************************************************************)
(* The drivers: process_html_files of the three files.                     *)
(***************************************************************************)
VARIABLES
  kind,        \* which program runs: "stats", "match" or "team"
  html_files,  \* the documents found under input_dir
  i,           \* number of documents the loop has processed
  ret,         \* what the extractor returned for html_files[i]
  all_data,    \* the row accumulator
  successful,  \* successful / successful_files
  failed,      \* failed
  total,       \* total_matches / total_teammates
  csv,         \* the output table
  pc,          \* position in process_html_files
  img_src      \* argument of a lookup called on its own

vars == <<kind, html_files, i, ret, all_data, successful, failed, total, csv, pc, img_src>>

Kinds == {"stats", "match", "team"}

\* most documents in one run
MaxFiles == 2

GoodDoc == Doc(TRUE, DefaultHead, FullStats, DefaultMatches, DefaultTeam)

\* no Discord avatar; the teammates rows still carry id= references
AnonDoc == Doc(TRUE, AnonHead, FullStats, DefaultMatches, DefaultTeam)

\* no Discord avatar and no id= reference anywhere
AnonBareDoc == Doc(TRUE, AnonHead, FullStats, DefaultMatches, NoTeam)

UnreadableDoc == Doc(FALSE, DefaultHead, FullStats, DefaultMatches, DefaultTeam)

\* identity, but no stats row, no results table, no teammates table
EmptyDoc == Doc(TRUE, DefaultHead, <<>>, NoMatches, NoTeam)

\* identity; only the Crewmate row is well-formed; a row without annotation
CrewOnlyDoc ==
  Doc(TRUE, DefaultHead,
      << [cat |-> "Crewmate", ok |-> TRUE], [cat |-> "Combined", ok |-> FALSE] >>,
      [marker |-> TRUE, cls |-> "archiveResults", rows |-> <<"ok", "ok", "ok">>],
      DefaultTeam)

DriverDocs == {GoodDoc, AnonDoc, AnonBareDoc, UnreadableDoc, EmptyDoc, CrewOnlyDoc}

StatsFieldnames ==
  << "server_name", "season", "discord_id", "username",
     "combined_rank", "combined_mmr", "combined_games_played_pct",
     "combined_wins", "combined_losses", "combined_win_pct",
     "crewmate_rank", "crewmate_mmr", "crewmate_games_played_pct",
     "crewmate_wins", "crewmate_losses", "crewmate_win_pct",
     "impostor_rank", "impostor_mmr", "impostor_games_played_pct",
     "impostor_wins", "impostor_losses", "impostor_win_pct" >>

MatchFieldnames ==
  << "server_name", "season", "player_discord_id", "player_username",
     "match_id", "map", "role", "win_probability_pct", "result",
     "mmr_change", "mmr_pct_of_total" >>

TeamFieldnames ==
  << "server_name", "season", "player_discord_id", "player_username",
     "teammate_rank", "teammate_discord_id", "teammate_username",
     "teammate_mmr", "matches_together_count", "matches_together_pct" >>

\* csv.DictWriter: a field is written as str(value), None as the empty string
CsvField(v) == IF v = None THEN "" ELSE v

\* writer.writeheader(); writer.writerows(all_data)
WriteCsv(fieldnames, data) ==
  [written |-> TRUE,
   header  |-> fieldnames,
   rows    |-> [r \in 1..Len(data) |->
                  [c \in 1..Len(fieldnames) |-> CsvField(data[r][fieldnames[c]])]]]

NoCsv == [written |-> FALSE, header |-> <<>>, rows |-> <<>>]

Init ==
  /\ kind \in Kinds
  /\ html_files \in SeqsUpTo(DriverDocs, MaxFiles)
  /\ i = 0
  /\ ret = <<>>
  /\ all_data = <<>>
  /\ successful = 0
  /\ failed = 0
  /\ total = 0
  /\ csv = NoCsv
  /\ pc = "start"
  /\ img_src = <<>>

\* html_files = list(input_dir.glob('**/*.html')); if not html_files: return
Discover ==
  /\ pc = "start"
  /\ pc' = IF html_files = <<>> THEN "done" ELSE "loop"
  /\ UNCHANGED <<img_src, kind, html_files, i, ret, all_data, successful, failed, total, csv>>

AfterFile == IF i + 1 = Len(html_files) THEN "write" ELSE "loop"

\* an exception that leaves the extractor ends the run
Crash ==
  /\ pc' = "crashed"
  /\ UNCHANGED <<i, ret, all_data, successful, failed, total>>

\* extract_player_stats.py: one iteration of the loop
StatsIter ==
  /\ pc = "loop" /\ kind = "stats" /\ i < Len(html_files)
  /\ \E r \in {extract_player_data(html_files[i + 1])} :
       LET data == r.val
       IN  IF r.raised THEN Crash
         ELSE /\ i' = i + 1
              /\ ret' = data
              /\ IF data # <<>>
                 THEN /\ all_data' = all_data \o data
                      /\ successful' = successful + 1
                      /\ failed' = failed
                 ELSE /\ failed' = failed + 1
                      /\ UNCHANGED <<all_data, successful>>
              /\ total' = total
              /\ pc' = AfterFile
  /\ UNCHANGED <<img_src, kind, html_files, csv>>

\* variant: the `elif` for an empty list counts nothing
FanOutIter_EmptyUncounted(r) ==
  LET rows == r.val
  IN  IF r.raised THEN Crash
      ELSE /\ i' = i + 1
           /\ ret' = rows
           /\ IF Len(rows) > 0
              THEN /\ all_data' = all_data \o rows
                   /\ successful' = successful + 1
                   /\ total' = total + Len(rows)
                   /\ failed' = failed
              ELSE UNCHANGED <<all_data, total, failed, successful>>
           /\ pc' = AfterFile

\* the if / elif / else on the rows a fan-out extractor returned
FanOutIter(r) ==
  LET rows == r.val
  IN  IF r.raised THEN Crash
      ELSE /\ i' = i + 1
           /\ ret' = rows
           /\ IF Len(rows) > 0
              THEN /\ all_data' = all_data \o rows
                   /\ successful' = successful + 1
                   /\ total' = total + Len(rows)
                   /\ failed' = failed
              ELSE IF Len(rows) = 0
              THEN /\ successful' = successful + 1
                   /\ UNCHANGED <<all_data, total, failed>>
              ELSE /\ failed' = failed + 1
                   /\ UNCHANGED <<all_data, total, successful>>
           /\ pc' = AfterFile

\* extract_match_history.py: one iteration of the loop
MatchIter ==
  /\ pc = "loop" /\ kind = "match" /\ i < Len(html_files)
  /\ \E r \in {extract_all_match_data(html_files[i + 1])} : FanOutIter(r)
  /\ UNCHANGED <<img_src, kind, html_files, csv>>

\* extract_teammates.py: one iteration of the loop
TeamIter ==
  /\ pc = "loop" /\ kind = "team" /\ i < Len(html_files)
  /\ \E r \in {extract_all_teammate_data(html_files[i + 1])} : FanOutIter(r)
  /\ UNCHANGED <<img_src, kind, html_files, csv>>

StatsWrite ==
  /\ pc = "write" /\ kind = "stats"
  /\ csv' = WriteCsv(StatsFieldnames, all_data)
  /\ pc' = "done"
  /\ UNCHANGED <<img_src, kind, html_files, i, ret, all_data, successful, failed, total>>

\* the report divides total_matches by successful_files
MatchWrite ==
  /\ pc = "write" /\ kind = "match"
  /\ csv' = WriteCsv(MatchFieldnames, all_data)
  /\ pc' = IF successful = 0 THEN "crashed" ELSE "done"
  /\ UNCHANGED <<img_src, kind, html_files, i, ret, all_data, successful, failed, total>>

TeamWrite ==
  /\ pc = "write" /\ kind = "team"
  /\ csv' = WriteCsv(TeamFieldnames, all_data)
  /\ pc' = "done"
  /\ UNCHANGED <<img_src, kind, html_files, i, ret, all_data, successful, failed, total>>

Next ==
  \/ Discover
  \/ StatsIter
  \/ MatchIter
  \/ TeamIter
  \/ StatsWrite
  \/ MatchWrite
  \/ TeamWrite

Spec == Init /\ [][Next]_vars

\* the program is sequential: it takes its next step whenever it has one
FairSpec == Spec /\ WF_vars(Next)

(***************************************************************************)
(* One extractor applied to one document.                                  *)
(***************************************************************************)
InitDoc ==
  /\ kind \in Kinds
  /\ html_files \in {<<d>> : d \in AllDocs}
  /\ i = 0
  /\ ret = <<>>
  /\ all_data = <<>>
  /\ successful = 0
  /\ failed = 0
  /\ total = 0
  /\ csv = NoCsv
  /\ pc = "call"
  /\ img_src = <<>>

Call(r) ==
  /\ pc = "call"
  /\ pc' = IF r.raised THEN "crashed" ELSE "returned"
  /\ i' = 1
  /\ ret' = r.val
  /\ UNCHANGED <<img_src, kind, html_files, all_data, successful, failed, total, csv>>

CallStats == kind = "stats" /\ \E r \in {extract_player_data(html_files[1])} : Call(r)

CallMatch == kind = "match" /\ \E r \in {extract_all_match_data(html_files[1])} : Call(r)

CallTeam == kind = "team" /\ \E r \in {extract_all_teammate_data(html_files[1])} : Call(r)

NextDoc ==
  \/ CallStats
  \/ CallMatch
  \/ CallTeam

SpecDoc == InitDoc /\ [][NextDoc]_vars

(***************************************************************************)
(* One lookup applied to one image reference.                              *)
(***************************************************************************)
upperChar(c) ==
  IF \E j \in 1..26 : Lower[j] = c
  THEN Upper[CHOOSE j \in 1..26 : Lower[j] = c]
  ELSE c

\* the strings that differ from s in letter case only
CaseVariants(s) ==
  {[j \in 1..Len(s) |-> IF up[j] THEN upperChar(s[j]) ELSE lowerChar(s[j])] :
     up \in [1..Len(s) -> BOOLEAN]}

\* the substrings the lookups test for, and two they do not know
ImgWords ==
  { <<"p","o","l","u","s">>, <<"m","i","r","a">>, <<"s","k","e","l","d">>,
    <<"a","i","r","s","h","i","p">>, <<"c","r","e","w">>,
    <<"i","m","p","o","s","t","o","r">>, <<"g","h","o","s","t">>, <<"v","2">> }

ImgSrcs == UNION {CaseVariants(w) : w \in ImgWords}

InitLookup ==
  /\ kind = "match"
  /\ html_files = <<>>
  /\ i = 0
  /\ ret = <<>>
  /\ all_data = <<>>
  /\ successful = 0
  /\ failed = 0
  /\ total = 0
  /\ csv = NoCsv
  /\ pc = "call"
  /\ img_src \in ImgSrcs

Lookup(fn, val) ==
  /\ pc = "call"
  /\ pc' = "looked"
  /\ ret' = [fn |-> fn, val |-> val]
  /\ UNCHANGED <<img_src, kind, html_files, i, all_data, successful, failed, total, csv>>

LookupMap == Lookup("map", extract_map_from_image(img_src))

LookupRole == Lookup("role", extract_role_from_image(img_src))

NextLookup ==
  \/ LookupMap
  \/ LookupRole

SpecLookup == InitLookup /\ [][NextLookup]_vars

(***************************************************************************)
(* What a document holds, read off its description.                        *)
(***************************************************************************)
\* the document the last call was about
CurDoc == html_files[i]

TeamRowsOf(d) == IF d.tsec.cls = "none" THEN <<>> ELSE d.tsec.rows

\* the first Discord avatar reference of the document, "" when it has none
FirstAvatar(d) ==
  IF d.head.av # "" THEN d.head.av
  ELSE IF d.tsec.cdn /\ TeamRowsOf(d) # <<>> THEN TeammateId(1)
  ELSE ""

\* the id of the first data-href that carries a numeric id= parameter
FirstHrefId(d) ==
  LET navs == {j \in 1..Len(d.head.navs) : d.head.navs[j].id # ""}
      rows == {j \in 1..Len(TeamRowsOf(d)) : TeamRowsOf(d)[j] # "nohref"}
  IN  IF navs # {} THEN d.head.navs[Min(navs)].id
      ELSE IF rows # {} THEN TeammateId(Min(rows))
      ELSE ""

\* the value of the first data-href that carries a tournament= parameter:
\* "none" when there is no such reference
FirstTournament(d) ==
  LET navs == {j \in 1..Len(d.head.navs) : d.head.navs[j].tour # "none"}
      rows == {j \in 1..Len(TeamRowsOf(d)) : TeamRowsOf(d)[j] # "nohref"}
  IN  IF navs # {} THEN d.head.navs[Min(navs)]
      ELSE IF rows # {} THEN HrefVal("season", "1", "", FALSE)
      ELSE NoHref

\* the program `k` can resolve a player identity for the document
Resolvable(k, d) ==
  /\ d.readable
  /\ FirstAvatar(d) # "" \/ (k = "stats" /\ FirstHrefId(d) # "")

\* the rows of a table that have the form f, in source order
RECURSIVE RowsOfForm(_, _, _)
RowsOfForm(rows, f, j) ==
  IF j > Len(rows) THEN <<>>
  ELSE (IF rows[j] = f THEN <<j>> ELSE <<>>) \o RowsOfForm(rows, f, j + 1)

MapNames == <<"Polus", "Airship", "The Skeld", "MIRA HQ", "Unknown">>

RoleNames == <<"Crewmate", "Impostor", "Unknown">>

\* the record the j-th results row stands for
ExpectedMatch(j) ==
  [match_id            |-> ToString(j),
   map                 |-> MapNames[(j % 5) + 1],
   role                |-> RoleNames[(j % 3) + 1],
   win_probability_pct |-> "63.5",
   result              |-> MatchResult(j),
   mmr_change          |-> (CASE j % 4 = 1 -> "12" [] j % 4 = 2 -> "-7.5"
                              [] j % 4 = 3 -> "3" [] OTHER -> "-20"),
   mmr_pct_of_total    |-> (CASE j % 4 = 1 -> "5" [] j % 4 = 0 -> "8.5" [] OTHER -> None)]

\* the fields of a fan-out row that belong to the match / teammate payload
MatchPayload(row) ==
  [match_id |-> row.match_id, map |-> row.map, role |-> row.role,
   win_probability_pct |-> row.win_probability_pct, result |-> row.result,
   mmr_change |-> row.mmr_change, mmr_pct_of_total |-> row.mmr_pct_of_total]

Identity(row) ==
  <<row.server_name, row.season, row.player_discord_id, row.player_username>>

\* the "Recent 10 Results" section is well-formed: heading and table present
WellFormedResults(d) == d.msec.marker /\ d.msec.cls = "archiveResults"

\* size of the tables the documentation speaks of ("recent 10", "top 10")
RecordCap == 10

(***************************************************************************)
(* C1: for every document in which no player identity can be resolved,     *)
(* each of the three extractors returns no row, whatever other sections    *)
(* the document holds.                                                     *)
(***************************************************************************)
C1_NoIdentityNoRows ==
  i >= 1 => (~Resolvable(kind, CurDoc) => ret = <<>>)

\* a readable document with three stats rows and a conformant results table
\* but no identity, given to the match-history extractor
C1_Witness ==
  /\ i >= 1 /\ kind = "match" /\ pc = "returned"
  /\ CurDoc.readable /\ ~Resolvable(kind, CurDoc)
  /\ CurDoc.stats = FullStats /\ CurDoc.msec = DefaultMatches
  /\ ret = <<>>

(***************************************************************************)
(* C2: a document with a resolvable identity and a well-formed "Recent 10  *)
(* Results" section holding exactly K conformant rows (K <= 10) yields     *)
(* exactly K records, in source order, from extract_match_history, and K   *)
(* rows in the same order, with one and the same identity, from            *)
(* extract_all_match_data.                                                 *)
(***************************************************************************)
C2_ConformantRowsExtracted ==
  (i >= 1 /\ kind = "match" /\ Resolvable(kind, CurDoc) /\ WellFormedResults(CurDoc)
     /\ Len(RowsOfForm(CurDoc.msec.rows, "ok", 1)) <= RecordCap)
  => LET conf    == RowsOfForm(CurDoc.msec.rows, "ok", 1)
         records == extract_match_history(CurDoc.html)
     IN  /\ Len(records) = Len(conf)
         /\ \A n \in 1..Len(conf) : records[n] = ExpectedMatch(conf[n])
         /\ Len(ret) = Len(conf)
         /\ \A n \in 1..Len(conf) :
              /\ MatchPayload(ret[n]) = ExpectedMatch(conf[n])
              /\ Identity(ret[n]) = Identity(ret[1])

\* ten conformant rows were extracted
C2_Witness ==
  /\ i >= 1 /\ kind = "match" /\ Resolvable(kind, CurDoc) /\ WellFormedResults(CurDoc)
  /\ Len(RowsOfForm(CurDoc.msec.rows, "ok", 1)) = RecordCap
  /\ Len(ret) = RecordCap

(***************************************************************************)
(* C3: in each driver a document that cannot be read or has no resolvable  *)
(* identity is counted as failed, not as succeeded, and adds no row.       *)
(***************************************************************************)
Unusable(k, upto) == {j \in 1..upto : ~Resolvable(k, html_files[j])}

C3_UnusableCountedFailed ==
  pc \in {"loop", "write", "done"}
  => /\ failed >= Cardinality(Unusable(kind, i))
     /\ successful <= i - Cardinality(Unusable(kind, i))
     /\ (i >= 1 /\ ~Resolvable(kind, CurDoc)) => ret = <<>>

(***************************************************************************)
(* C4: a failure on one document never halts the batch: once the loop is   *)
(* entered, every document gets processed and the output table is written. *)
(***************************************************************************)
C4_BatchCompletes ==
  (pc = "loop") ~> (csv.written /\ i = Len(html_files))

\* a run whose first document could not be read went on to the second
\* document and wrote the table
C4_Witness ==
  /\ Len(html_files) = 2 /\ ~html_files[1].readable
  /\ i = 2 /\ csv.written

(***************************************************************************)
(* C5: in the match-history and teammates drivers a readable document with *)
(* identity and an empty payload adds no row and counts as succeeded, and  *)
(* the counters tell it from a document that failed: succeeded counts      *)
(* exactly the documents that were usable.                                 *)
(***************************************************************************)
EmptyPayload(k, d) ==
  IF k = "match" THEN d.msec.cls = "none" \/ d.msec.rows = <<>>
  ELSE d.tsec.cls = "none" \/ d.tsec.rows = <<>>

C5_EmptyPayloadDistinctFromFailure ==
  (kind \in {"match", "team"} /\ pc \in {"loop", "write", "done"})
  => /\ (i >= 1 /\ Resolvable(kind, CurDoc) /\ EmptyPayload(kind, CurDoc)) => ret = <<>>
     /\ successful = i - Cardinality(Unusable(kind, i))

(***************************************************************************)
(* C6: when only the Crewmate row of the stats table is well-formed, the   *)
(* row has the six crewmate_ fields of that row and None in all twelve     *)
(* combined_ and impostor_ fields.                                         *)
(***************************************************************************)
OnlyCrewmateWellFormed(stats) ==
  /\ \E j \in 1..Len(stats) : stats[j].cat = "Crewmate" /\ stats[j].ok
  /\ \A j \in 1..Len(stats) : stats[j].cat # "Crewmate" => ~stats[j].ok

C6_OnlyCrewmatePopulated ==
  (i >= 1 /\ kind = "stats" /\ Resolvable(kind, CurDoc)
     /\ OnlyCrewmateWellFormed(CurDoc.stats))
  => /\ Len(ret) = 1
     /\ \A c \in 11..16 : ret[1][StatsFieldnames[c]] = StatVal("Crewmate", c - 10)
     /\ \A c \in (5..10) \cup (17..22) : ret[1][StatsFieldnames[c]] = None

(***************************************************************************)
(* C7: the stats table renders every field of an absent sub-record as the  *)
(* string "N/A"; the match-history table renders a missing                 *)
(* mmr_pct_of_total as an empty field.                                     *)
(***************************************************************************)
C7_AbsentRendering ==
  csv.written
  => \A r \in 1..Len(all_data) :
       /\ kind = "stats" =>
            \A c \in 5..22 :
              all_data[r][StatsFieldnames[c]] = None => csv.rows[r][c] = "N/A"
       /\ kind = "match" =>
            (all_data[r].mmr_pct_of_total = None => csv.rows[r][11] = "")

(***************************************************************************)
(* C8: extract_match_history and extract_teammates return at most 10       *)
(* records for every document.                                             *)
(***************************************************************************)
C8_AtMostTenRecords ==
  i >= 1
  => /\ Len(extract_match_history(CurDoc.html)) <= RecordCap
     /\ Len(extract_teammates(CurDoc.html)) <= RecordCap

(***************************************************************************)
(* C9: extract_discord_id returns the id of the avatar reference whenever  *)
(* there is one; without one the stats extractor returns the id of the     *)
(* first data-href with an id= parameter (None only when there is none)    *)
(* and the match-history and teammates extractors return None.             *)
(***************************************************************************)
C9_IdentityResolution ==
  i >= 1
  => LET html == CurDoc.html
         av   == FirstAvatar(CurDoc)
         hid  == FirstHrefId(CurDoc)
     IN  IF av # ""
         THEN /\ extract_discord_id_stats(html) = av
              /\ extract_discord_id_match(html) = av
              /\ extract_discord_id_team(html) = av
         ELSE /\ extract_discord_id_stats(html) = (IF hid # "" THEN hid ELSE None)
              /\ extract_discord_id_match(html) = None
              /\ extract_discord_id_team(html) = None

\* no avatar reference, an id= reference: the stats extractor produced a row
\* with that id, the document has no identity for the other two
C9_Witness ==
  /\ i >= 1 /\ kind = "stats" /\ CurDoc.readable
  /\ FirstAvatar(CurDoc) = "" /\ FirstHrefId(CurDoc) = "777"
  /\ Len(ret) = 1 /\ ret[1].discord_id = "777"
  /\ extract_discord_id_match(CurDoc.html) = None

(***************************************************************************)
(* C10: extract_season never returns None: it returns N when the value of  *)
(* the (first) tournament= reference holds "Season N", and "0" both when   *)
(* there is no tournament= reference and when its value holds no such      *)
(* token.                                                                  *)
(***************************************************************************)
C10_SeasonDefault ==
  i >= 1
  => LET t      == FirstTournament(CurDoc)
         season == extract_season(CurDoc.html)
     IN  /\ season # None
         /\ t.tour = "season" => season = t.n
         /\ t.tour \in {"none", "other"} => season = "0"
         /\ ret # <<>> => ret[1].season = season

\* a tournament= reference without a season token, followed by one with a
\* token: the row carries season "0"
C10_Witness ==
  /\ i >= 1 /\ kind = "stats" /\ Len(ret) = 1
  /\ CurDoc.head.navs = <<OtherTour, Season2Id>>
  /\ ret[1].season = "0"

(***************************************************************************)
(* C11: for every conformant results row the record's mmr_change is the     *)
(* cell's signed decimal, a leading '+' stripped and a leading '-' kept,    *)
(* and mmr_pct_of_total is x when the cell carries "x% of total" and None   *)
(* otherwise; the row (airship, impostor, 63.5%, Won, "+12 (5% of total)")  *)
(* gives Airship, Impostor, 63.5, Won, 12, 5.                               *)
(***************************************************************************)
\* the signed decimal a cell's number stands for, '+' dropped
SignedDecimal(cell) ==
  (IF cell.pre = "-" THEN "-" ELSE "") \o cell.ip
  \o (IF cell.fp = "" THEN "" ELSE "." \o cell.fp)

\* the row of the round-trip example
IsSampleRow(j) ==
  /\ MatchMap(j) = <<"a","i","r","s","h","i","p">>
  /\ Contains(lower(MatchRole(j)), <<"i","m","p","o","s","t","o","r">>)
  /\ MatchResult(j) = "Won"
  /\ TextStr(MatchMmr(j)) = "+12 (5% of total)"

SampleRecord(j) ==
  [match_id |-> ToString(j), map |-> "Airship", role |-> "Impostor",
   win_probability_pct |-> "63.5", result |-> "Won",
   mmr_change |-> "12", mmr_pct_of_total |-> "5"]

C11_MmrSignAndAnnotation ==
  (i >= 1 /\ kind = "match" /\ Resolvable(kind, CurDoc) /\ WellFormedResults(CurDoc))
  => LET conf == RowsOfForm(CurDoc.msec.rows, "ok", 1)
     IN  /\ Len(ret) = Len(conf)
         /\ \A n \in 1..Len(conf) :
              LET cell == MatchMmr(conf[n])
              IN  /\ ret[n].mmr_change = SignedDecimal(cell)
                  /\ ret[n].mmr_pct_of_total = (IF cell.suf = "of" THEN cell.ann ELSE None)
                  /\ IsSampleRow(conf[n]) => MatchPayload(ret[n]) = SampleRecord(conf[n])

\* a table whose first row is the example and whose second row has a negative
\* change without annotation: both were extracted
C11_Witness ==
  /\ i >= 1 /\ kind = "match" /\ Resolvable(kind, CurDoc) /\ WellFormedResults(CurDoc)
  /\ CurDoc.msec.rows = <<"ok", "ok">>
  /\ IsSampleRow(1)
  /\ MatchPayload(ret[1]) = SampleRecord(1)
  /\ ret[2].mmr_change = "-7.5" /\ ret[2].mmr_pct_of_total = None

(***************************************************************************)
(* C12: the map lookup and the role lookup are case-insensitive: changing  *)
(* the letter case of the image reference does not change the result.      *)
(***************************************************************************)
C12_LookupsIgnoreCase ==
  pc = "looked"
  => \A t \in CaseVariants(img_src) :
       IF ret.fn = "map" THEN extract_map_from_image(t) = ret.val
       ELSE extract_role_from_image(t) = ret.val

(***************************************************************************)
(* C13: every run ends with an output table that holds the header row,     *)
(* also when the directory holds no document and when no document yields   *)
(* a row.                                                                  *)
(***************************************************************************)
Fieldnames(k) ==
  CASE k = "stats" -> StatsFieldnames
    [] k = "match" -> MatchFieldnames
    [] OTHER       -> TeamFieldnames

C13_HeaderAlwaysWritten ==
  pc \in {"done", "crashed"} => (csv.written /\ csv.header = Fieldnames(kind))

(***************************************************************************)
(* C16: after each iteration succeeded + failed is the number of documents *)
(* processed so far, in the match-history and teammates drivers the total  *)
(* record count is the length of the row accumulator, and at the end of a  *)
(* run succeeded + failed is the number of documents discovered.           *)
(***************************************************************************)
C16_CountersAddUp ==
  /\ successful + failed = i
  /\ kind \in {"match", "team"} => total = Len(all_data)
  /\ pc \in {"done", "crashed"} => successful + failed = Len(html_files)

\* a finished match-history run over a document with rows and a document
\* without identity
C16_Witness ==
  /\ pc = "done" /\ kind = "match"
  /\ html_files = <<GoodDoc, AnonBareDoc>>
  /\ i = 2 /\ successful + failed = 2
  /\ total = 2 /\ Len(all_data) = 2

(***************************************************************************)
(* C14: in extract_teammates a row that fails the row shape gives no       *)
(* record, and every record takes its six fields from one single source    *)
(* row: each record is the record of one conformant row.                   *)
(***************************************************************************)
\* the record the j-th teammates row stands for
ExpectedTeammate(j) ==
  [teammate_discord_id    |-> TeammateId(j),
   teammate_rank          |-> ToString(j),
   teammate_username      |-> TeammateName(j),
   teammate_mmr           |-> "15" \o ToString(j),
   matches_together_count |-> "8" \o ToString(j),
   matches_together_pct   |-> "4" \o ToString(j)]

C14_TeammateRecordFromOneRow ==
  i >= 1
  => LET rows    == TeamRowsOf(CurDoc)
         records == extract_teammates(CurDoc.html)
     IN  \A n \in 1..Len(records) :
           \E j \in 1..Len(rows) : rows[j] = "ok" /\ records[n] = ExpectedTeammate(j)

(***************************************************************************)
(* C15: in extract_role_stats a category is absent (six None) whenever the *)
(* row with the category's marker is not followed by the six cells, and a  *)
(* populated sub-record never holds the cells of another row.              *)
(***************************************************************************)
\* the stats table holds the category's row with its six cells
OwnRowWellFormed(stats, cat) ==
  \E j \in 1..Len(stats) : stats[j].cat = cat /\ stats[j].ok

\* the k-th field of the category's sub-record in the output row
StatField(row, cat, k) == row[StatsFieldnames[4 + 6 * (CatNo(cat) - 1) + k]]

C15_AbsentOrOwnRow ==
  (i >= 1 /\ kind = "stats" /\ Resolvable(kind, CurDoc))
  => /\ Len(ret) = 1
     /\ \A c \in 1..3 : \A k \in 1..6 :
          LET cat   == Categories[c]
              field == StatField(ret[1], cat, k)
          IN  /\ ~OwnRowWellFormed(CurDoc.stats, cat) => field = None
              /\ field # None => field = StatVal(cat, k)

====
